---- MODULE Spec2Model ----
(***************************************************************************)
(* Model of otrta/gateway/src/forward.rs: the payment-gated forwarding     *)
(* gateway.  One inbound request is followed from its route handler        *)
(* through forward_request_with_payment_with_body: configuration lookup,   *)
(* wallet send, outbound request, change absorption, header filter and     *)
(* the spawned streaming relay (producer task, bounded channel, consumer). *)
(* Every .await of the handler is a position of pc; the code between two   *)
(* awaits is one action.                                                   *)
(***************************************************************************)
EXTENDS Integers, Sequences, FiniteSets, TLC

\* ------------------------------------------------------------------ bounds
MaxChunks == 3
MaxHeaders == 2

\* ------------------------------------------------------- program constants
QueueCapacity == 100
SendAmount == 10
BAD_REQUEST == 400
INTERNAL_SERVER_ERROR == 500
StreamTimeoutSecs == 300

\* --------------------------------------------------------------- Option<T>
None == <<>>
Some(x) == <<x>>
IsSome(o) == o # <<>>
Unwrap(o) == o[1]

\* ----------------------------------------------------------- header values
\* A HeaderValue is a byte string: bytes 32..255 except 127, and tab.
\* "5"
Five == <<53>>
\* the single obs-text byte 0xFF, a legal HeaderValue that is not ASCII
ObsText == <<255>>
\* "application/json"
APPLICATION_JSON ==
    <<97, 112, 112, 108, 105, 99, 97, 116, 105, 111, 110, 47, 106, 115, 111, 110>>
\* "text/event-stream"
TEXT_EVENT_STREAM ==
    <<116, 101, 120, 116, 47, 101, 118, 101, 110, 116, 45, 115, 116, 114, 101, 97, 109>>

\* HeaderValue::to_str: Ok(str) iff every byte is visible ASCII (or tab)
is_visible_ascii(b) == (b >= 32 /\ b < 127) \/ b = 9
to_str(v) ==
    IF \A i \in 1..Len(v) : is_visible_ascii(v[i]) THEN <<"Ok", v>> ELSE <<"Err", v>>

\* ------------------------------------------------------------- HeaderMap
\* A HeaderMap is modelled as the sequence of its (name, value) entries in
\* iteration order; names are lower-case.
RECURSIVE SelectEntries(_, _)
SelectEntries(h, name) ==
    IF h = <<>> THEN <<>>
    ELSE IF h[1][1] = name THEN <<h[1]>> \o SelectEntries(Tail(h), name)
         ELSE SelectEntries(Tail(h), name)

RECURSIVE RemoveEntries(_, _)
RemoveEntries(h, name) ==
    IF h = <<>> THEN <<>>
    ELSE IF h[1][1] = name THEN RemoveEntries(Tail(h), name)
         ELSE <<h[1]>> \o RemoveEntries(Tail(h), name)

contains_key(h, name) == \E i \in 1..Len(h) : h[i][1] = name

\* HeaderMap::get: the first value associated with the name
get(h, name) ==
    IF contains_key(h, name) THEN Some(SelectEntries(h, name)[1][2]) ELSE None

\* HeaderMap::insert: the new value takes the place of the name's first
\* value and every other value of that name is removed; a new name is added
\* at the end.
insert(h, name, value) ==
    IF contains_key(h, name)
    THEN LET i == CHOOSE k \in 1..Len(h) :
                      h[k][1] = name /\ \A j \in 1..(k - 1) : h[j][1] # name
         IN  SubSeq(h, 1, i - 1) \o <<<<name, value>>>>
                 \o RemoveEntries(SubSeq(h, i + 1, Len(h)), name)
    ELSE Append(h, <<name, value>>)

\* ResponseBuilder::header / RequestBuilder::header: the value is added
append(h, name, value) == Append(h, <<name, value>>)


\* ------------------------------------------------------------ input sets
\* "k1", "k2"
ApiKeys == {<<107, 49>>, <<107, 50>>}
Configs == {[endpoint |-> "https://upstream", api_key |-> k] : k \in ApiKeys}
\* tokens the wallet can mint: "A", "B"
Tokens == {<<65>>, <<66>>}
\* "caller"
CallerCredential == <<99, 97, 108, 108, 101, 114>>
InboundHeaderMaps ==
    { <<>>,
      << <<"accept", TEXT_EVENT_STREAM>> >>,
      << <<"authorization", CallerCredential>> >>,
      << <<"accept", TEXT_EVENT_STREAM>>, <<"authorization", CallerCredential>> >> }
StreamFlags == {None, Some(TRUE), Some(FALSE)}
ModelIds == {"m1"}
UpstreamStatuses == {200, 402}
HeaderNames == {"connection", "transfer-encoding", "content-type", "set-cookie", "x-change-sats"}
HeaderValues == {Five, ObsText}
HeaderEntries == {<<n, v>> : n \in HeaderNames, v \in HeaderValues}
UpstreamHeaderMaps == UNION {[1..n -> HeaderEntries] : n \in 0..MaxHeaders}
ChunkBytes == {1, 2}

\* unwrap_or on Option<bool>
unwrap_or(o, d) == IF IsSome(o) THEN Unwrap(o) ELSE d

VARIABLES
    pc,             \* position of the handler: the await it is suspended at
    args,           \* Some(arguments of forward_request_with_payment_with_body)
    server_config,  \* Some(config) once resolved
    req_builder,    \* Some(RequestBuilder) while the outbound request is built
    token,          \* Some(token) from wallet.send until the handler returns
    in_flight,      \* Some(request) while the upstream is processing it
    is_streaming,   \* the streaming flag of the request
    sendCalls,      \* amounts of the wallet.send calls of this request
    receiveCalls,   \* amounts of the wallet.receive calls of this request
    results,        \* what each collaborator call of this request returned
    upstreamCalls,  \* outbound HTTP sends performed by this request
    upstreamResp,   \* Some([status, headers]) once the upstream answered
    response,       \* Some([status, headers, body]) once the handler returned
    spawned,        \* number of producer tasks spawned
    producer,       \* "none" | "next" | "send" | "done": position of the task
    item,           \* Some(item) the producer holds while it awaits tx.send
    upstreamRead,   \* chunks the producer has read from the upstream stream
    upstreamState,  \* "open" | "ended" | "errored": the upstream byte stream
    queue,          \* contents of the mpsc channel
    rx,             \* "none" | "open" | "dropped": the receiving half
    clientState,    \* "none" | "reading" | "ended" | "failed" | "disconnected"
    delivered       \* chunks written to the client

vars == <<pc, args, server_config, token, req_builder, in_flight, is_streaming,
          sendCalls, receiveCalls, results, upstreamCalls, upstreamResp,
          response, spawned, producer, item, upstreamRead, upstreamState,
          queue, rx, clientState, delivered>>

relayVars == <<spawned, producer, item, upstreamRead, upstreamState, queue, rx,
               clientState, delivered>>

Init ==
    /\ pc = "idle"
    /\ args = None
    /\ server_config = None
    /\ req_builder = None
    /\ token = None
    /\ in_flight = None
    /\ is_streaming = FALSE
    /\ sendCalls = <<>>
    /\ receiveCalls = <<>>
    /\ results = [config |-> "pending", send |-> "pending", upstream |-> "pending",
                  receive |-> "pending"]
    /\ upstreamCalls = 0
    /\ upstreamResp = None
    /\ response = None
    /\ spawned = 0
    /\ producer = "none"
    /\ item = None
    /\ upstreamRead = <<>>
    /\ upstreamState = "open"
    /\ queue = <<>>
    /\ rx = "none"
    /\ clientState = "none"
    /\ delivered = <<>>

\* ------------------------------------------------------- route handlers
\* Entry of forward_request_with_payment_with_body: the arguments are bound
\* and get_server_config(&db) is awaited.
forward_request_with_payment_with_body(op, original_headers, endpoint_fn, body, streaming) ==
    /\ pc = "idle"
    /\ pc' = "get_server_config"
    /\ args' = Some([op |-> op, original_headers |-> original_headers,
                     endpoint_fn |-> endpoint_fn, body |-> body])
    /\ is_streaming' = streaming
    /\ UNCHANGED <<server_config, token, req_builder, in_flight, sendCalls, receiveCalls,
                   results, upstreamCalls, upstreamResp, response, relayVars>>

forward_request_with_payment(op, original_headers, endpoint_fn) ==
    forward_request_with_payment_with_body(op, original_headers, endpoint_fn, None, FALSE)

forward_chat_completions ==
    \E headers \in InboundHeaderMaps, stream \in StreamFlags :
        LET request == [type |-> "ChatCompletionRequest", stream |-> stream]
        IN  forward_request_with_payment_with_body(
                "chat_completions", headers, <<"/v1/chat/completions">>,
                Some(request), unwrap_or(request.stream, FALSE))

forward_list_models ==
    \E headers \in InboundHeaderMaps :
        forward_request_with_payment("list_models", headers, <<"/v1/models">>)

forward_embeddings ==
    \E headers \in InboundHeaderMaps :
        LET request == [type |-> "EmbeddingRequest", stream |-> None]
        IN  forward_request_with_payment_with_body(
                "embeddings", headers, <<"/v1/embeddings">>, Some(request), FALSE)

forward_image_generations ==
    \E headers \in InboundHeaderMaps :
        LET request == [type |-> "ImageGenerationRequest", stream |-> None]
        IN  forward_request_with_payment_with_body(
                "image_generations", headers, <<"/v1/images/generations">>,
                Some(request), FALSE)

get_specific_model ==
    \E headers \in InboundHeaderMaps, model_id \in ModelIds :
        forward_request_with_payment("get_model", headers, <<"/v1/models/", model_id>>)

\* ------------------------------------------------- error response bodies
JsonNull == [json |-> "null"]
WalletErrors == {"wallet unreachable"}
TransportErrors == {"connection refused"}

\* (StatusCode, Json(value)).into_response()
into_response(status, value) ==
    [status |-> status,
     headers |-> << <<"content-type", APPLICATION_JSON>> >>,
     body |-> <<"json", value>>]

\* config_missing_json with another error code
config_missing_json_nocode ==
    [error |-> [message |-> <<"Server configuration missing. Cannot process request without a configured endpoint.">>,
                type |-> "server_error",
                param |-> JsonNull,
                code |-> "config_missing"]]

config_missing_json ==
    [error |-> [message |-> <<"Server configuration missing. Cannot process request without a configured endpoint.">>,
                type |-> "server_error",
                param |-> JsonNull,
                code |-> "server_config_missing"]]

\* payment_error_json reporting the failure as a server error
payment_error_json_servererror(e) ==
    [error |-> [message |-> <<"Failed to generate payment token: ", e>>,
                type |-> "server_error"]]

payment_error_json(e) ==
    [error |-> [message |-> <<"Failed to generate payment token: ", e>>,
                type |-> "payment_error"]]

gateway_error_json(error) ==
    [error |-> [message |-> <<"Error forwarding request: ", error>>,
                type |-> "gateway_error"]]

\* --------------------------------------------------- configuration lookup
\* get_server_config returned None: the 400 response is returned at once.
ConfigMissing ==
    /\ pc = "get_server_config"
    /\ results' = [results EXCEPT !.config = "None"]
    /\ response' = Some(into_response(BAD_REQUEST, config_missing_json))
    /\ pc' = "returned"
    /\ args' = None
    /\ UNCHANGED <<server_config, token, req_builder, in_flight, is_streaming, sendCalls,
                   receiveCalls, upstreamCalls, upstreamResp, relayVars>>

\* RequestBuilder::json: serialises the body and sets Content-Type unless the
\* request already has one
json(rb, body_data) ==
    [rb EXCEPT !.body = Some(body_data),
               !.headers = IF contains_key(rb.headers, "content-type") THEN @
                           ELSE insert(@, "content-type", APPLICATION_JSON)]

\* new_req_builder choosing POST whether or not there is a body
new_req_builder_post(config, endpoint_fn, body, streaming) ==
    LET endpoint_url == <<config.endpoint>> \o endpoint_fn
        rb == [method |-> "POST",
               url |-> endpoint_url,
               body |-> None,
               headers |-> <<>>,
               timeout |-> IF streaming THEN Some(StreamTimeoutSecs) ELSE None]
    IN  IF IsSome(body) THEN json(rb, Unwrap(body)) ELSE rb

\* Lines 152-173: the client, the endpoint URL and the request builder.
new_req_builder(config, endpoint_fn, body, streaming) ==
    LET endpoint_url == <<config.endpoint>> \o endpoint_fn
        rb == [method |-> IF IsSome(body) THEN "POST" ELSE "GET",
               url |-> endpoint_url,
               body |-> None,
               headers |-> <<>>,
               timeout |-> IF streaming THEN Some(StreamTimeoutSecs) ELSE None]
    IN  IF IsSome(body) THEN json(rb, Unwrap(body)) ELSE rb

\* get_server_config returned Some(config): the request builder is prepared
\* and wallet.send(10, ..) is awaited.
ConfigFound ==
    /\ pc = "get_server_config"
    /\ results' = [results EXCEPT !.config = "Some"]
    /\ \E config \in Configs :
         /\ server_config' = Some(config)
         /\ req_builder' = Some(new_req_builder(config, Unwrap(args).endpoint_fn,
                                                Unwrap(args).body, is_streaming))
    /\ sendCalls' = Append(sendCalls, SendAmount)
    /\ pc' = "wallet_send"
    /\ UNCHANGED <<args, token, in_flight, is_streaming, receiveCalls, upstreamCalls, upstreamResp, response, relayVars>>

\* ------------------------------------------------------------ payment gate
\* WalletSendErr retrying the wallet call instead of returning
WalletSendErr_retry ==
    /\ pc = "wallet_send"
    /\ Len(sendCalls) < 3
    /\ sendCalls' = Append(sendCalls, SendAmount)
    /\ UNCHANGED <<pc, args, server_config, token, req_builder, in_flight, is_streaming,
                   receiveCalls, results, upstreamCalls, upstreamResp, response,
                   relayVars>>

\* wallet.send returned Err(e): the 500 payment_error response is returned.
WalletSendErr ==
    /\ pc = "wallet_send"
    /\ results' = [results EXCEPT !.send = "Err"]
    /\ \E e \in WalletErrors :
         response' = Some(into_response(INTERNAL_SERVER_ERROR, payment_error_json(e)))
    /\ pc' = "returned"
    /\ args' = None
    /\ server_config' = None
    /\ token' = None
    /\ req_builder' = None
    /\ UNCHANGED <<in_flight, is_streaming, sendCalls, receiveCalls, upstreamCalls, upstreamResp, relayVars>>

\* "Bearer "
Bearer == <<66, 101, 97, 114, 101, 114, 32>>

\* set_headers keeping a credential the caller supplied
set_headers_caller(rb, config, tok, original_headers) ==
    LET auth == get(original_headers, "authorization")
        h1 == append(rb.headers, "authorization",
                     IF IsSome(auth) THEN Unwrap(auth) ELSE Bearer \o config.api_key)
        h2 == append(h1, "content-type", APPLICATION_JSON)
        h3 == append(h2, "x-payment-sats", tok)
        accept == get(original_headers, "accept")
        h4 == IF IsSome(accept) THEN append(h3, "accept", Unwrap(accept)) ELSE h3
    IN  [rb EXCEPT !.headers = h4]

\* Lines 192-201: credential, content type, payment token, optional accept.
set_headers(rb, config, tok, original_headers) ==
    LET h1 == append(rb.headers, "authorization", Bearer \o config.api_key)
        h2 == append(h1, "content-type", APPLICATION_JSON)
        h3 == append(h2, "x-payment-sats", tok)
        accept == get(original_headers, "accept")
        h4 == IF IsSome(accept) THEN append(h3, "accept", Unwrap(accept)) ELSE h3
    IN  [rb EXCEPT !.headers = h4]

\* WalletSendOk attaching a token other than the one wallet.send returned
WalletSendOk_stale ==
    /\ pc = "wallet_send"
    /\ results' = [results EXCEPT !.send = "Ok"]
    /\ \E t \in Tokens :
         /\ token' = Some(t)
         /\ in_flight' = Some(set_headers(Unwrap(req_builder), Unwrap(server_config),
                                          CHOOSE old \in Tokens : TRUE,
                                          Unwrap(args).original_headers))
    /\ req_builder' = None
    /\ upstreamCalls' = upstreamCalls + 1
    /\ pc' = "upstream_send"
    /\ UNCHANGED <<args, server_config, is_streaming, sendCalls, receiveCalls,
                   upstreamResp, response, relayVars>>

\* wallet.send returned Ok(token): the headers are set and the request is
\* sent to the upstream (req_builder.send() is awaited).
WalletSendOk ==
    /\ pc = "wallet_send"
    /\ results' = [results EXCEPT !.send = "Ok"]
    /\ \E t \in Tokens :
         /\ token' = Some(t)
         /\ in_flight' = Some(set_headers(Unwrap(req_builder), Unwrap(server_config),
                                          t, Unwrap(args).original_headers))
    /\ req_builder' = None
    /\ upstreamCalls' = upstreamCalls + 1
    /\ pc' = "upstream_send"
    /\ UNCHANGED <<args, server_config, is_streaming, sendCalls, receiveCalls,
                   upstreamResp, response, relayVars>>

\* ------------------------------------------------------- outbound request
\* UpstreamSendErr handing the unspent token back to the wallet
UpstreamSendErr_refund ==
    /\ pc = "upstream_send"
    /\ results' = [results EXCEPT !.upstream = "Err"]
    /\ \E error \in TransportErrors :
         response' = Some(into_response(INTERNAL_SERVER_ERROR, gateway_error_json(error)))
    /\ receiveCalls' = Append(receiveCalls, Unwrap(token))
    /\ pc' = "returned"
    /\ args' = None
    /\ server_config' = None
    /\ token' = None
    /\ in_flight' = None
    /\ UNCHANGED <<req_builder, is_streaming, sendCalls, upstreamCalls, upstreamResp,
                   relayVars>>

\* UpstreamSendErr sending the request a second time instead of returning
UpstreamSendErr_retry ==
    /\ pc = "upstream_send"
    /\ upstreamCalls < 3
    /\ upstreamCalls' = upstreamCalls + 1
    /\ UNCHANGED <<pc, args, server_config, token, req_builder, in_flight, is_streaming,
                   sendCalls, receiveCalls, results, upstreamResp, response,
                   relayVars>>

\* req_builder.send() returned Err(error): the 500 gateway_error response.
UpstreamSendErr ==
    /\ pc = "upstream_send"
    /\ results' = [results EXCEPT !.upstream = "Err"]
    /\ \E error \in TransportErrors :
         response' = Some(into_response(INTERNAL_SERVER_ERROR, gateway_error_json(error)))
    /\ pc' = "returned"
    /\ args' = None
    /\ server_config' = None
    /\ token' = None
    /\ in_flight' = None
    /\ UNCHANGED <<req_builder, is_streaming, sendCalls, receiveCalls, upstreamCalls, upstreamResp, relayVars>>

\* ------------------------------------------------------------ header filter
\* Lines 223-228: every upstream entry but "connection" and
\* "transfer-encoding" is inserted into the response headers.
RECURSIVE copy_headers(_, _)
copy_headers(response_headers, headers) ==
    IF headers = <<>> THEN response_headers
    ELSE LET name == headers[1][1]
             value == headers[1][2]
         IN  copy_headers(
                 IF name # "connection" /\ name # "transfer-encoding"
                 THEN insert(response_headers, name, value)
                 ELSE response_headers,
                 Tail(headers))

\* response_builder injecting the content type without looking at the
\* streaming flag
response_builder_anymode(status, headers, streaming) ==
    [status |-> status,
     headers |-> IF ~contains_key(headers, "content-type")
                 THEN append(<<>>, "content-type", TEXT_EVENT_STREAM)
                 ELSE <<>>]

\* Lines 208-212: Response::builder().status(status) and the content type
\* injected for a streaming request the upstream gave no content type.
response_builder(status, headers, streaming) ==
    [status |-> status,
     headers |-> IF streaming /\ ~contains_key(headers, "content-type")
                 THEN append(<<>>, "content-type", TEXT_EVENT_STREAM)
                 ELSE <<>>]

\* Lines 223-272: header filter, channel, producer task, streamed body; the
\* handler returns the response and its locals are dropped.
ReturnStream(resp) ==
    LET rb == response_builder(resp.status, resp.headers, is_streaming)
    IN  /\ response' = Some([status |-> rb.status,
                             headers |-> copy_headers(rb.headers, resp.headers),
                             body |-> <<"stream">>])
        /\ spawned' = spawned + 1
        /\ producer' = "next"
        /\ rx' = "open"
        /\ clientState' = "reading"
        /\ pc' = "returned"
        /\ args' = None
        /\ server_config' = None
        /\ token' = None
        /\ UNCHANGED <<req_builder, is_streaming, sendCalls, upstreamCalls, item,
                       upstreamRead, upstreamState, queue, delivered>>

\* req_builder.send() returned Ok(resp).  With an X-CHANGE-SATS header the
\* value goes through to_str().unwrap() (a panic when it is not ASCII) and
\* wallet.receive is awaited; without one the response is returned.
UpstreamRespond ==
    /\ pc = "upstream_send"
    /\ results' = [results EXCEPT !.upstream = "Ok"]
    /\ \E status \in UpstreamStatuses, headers \in UpstreamHeaderMaps :
         LET resp == [status |-> status, headers |-> headers]
             change_sats == get(headers, "x-change-sats")
         IN  /\ upstreamResp' = Some(resp)
             /\ in_flight' = None
             /\ IF IsSome(change_sats)
                THEN IF to_str(Unwrap(change_sats))[1] = "Ok"
                     THEN /\ receiveCalls' = Append(receiveCalls, Unwrap(change_sats))
                          /\ pc' = "wallet_receive"
                          /\ UNCHANGED <<args, server_config, token, req_builder, is_streaming,
                                         sendCalls, upstreamCalls,
                                         response, relayVars>>
                     ELSE /\ pc' = "panicked"
                          /\ args' = None
                          /\ server_config' = None
                          /\ token' = None
                          /\ UNCHANGED <<req_builder, is_streaming, sendCalls,
                                         receiveCalls, upstreamCalls,
                                         response, relayVars>>
                ELSE /\ ReturnStream(resp)
                     /\ UNCHANGED receiveCalls

\* ---------------------------------------------------------- change absorber
\* wallet.receive returned Ok(res): the balance is printed.
WalletReceiveOk ==
    /\ pc = "wallet_receive"
    /\ results' = [results EXCEPT !.receive = "Ok"]
    /\ ReturnStream(Unwrap(upstreamResp))
    /\ UNCHANGED <<in_flight, receiveCalls, upstreamResp>>

\* wallet.receive returned Err(_): the `if let Ok` does not match.
WalletReceiveErr ==
    /\ pc = "wallet_receive"
    /\ results' = [results EXCEPT !.receive = "Err"]
    /\ ReturnStream(Unwrap(upstreamResp))
    /\ UNCHANGED <<in_flight, receiveCalls, upstreamResp>>

handlerVars == <<pc, args, server_config, token, req_builder, in_flight, is_streaming,
                 sendCalls, receiveCalls, results, upstreamCalls,
                 upstreamResp, response, spawned>>

\* ------------------------------------------------------------ producer task
\* stream.next() yielded Some(Ok(chunk)): tx.send(Ok(chunk)) is awaited.
\* (max bounds the number of chunks the upstream emits, chunks their contents)
ProducerNextChunk(max, chunks) ==
    /\ producer = "next"
    /\ upstreamState = "open"
    /\ Len(upstreamRead) < max
    /\ \E chunk \in chunks :
         /\ upstreamRead' = Append(upstreamRead, chunk)
         /\ item' = Some(<<"Ok", chunk>>)
    /\ producer' = "send"
    /\ UNCHANGED <<handlerVars, upstreamState, queue, rx, clientState, delivered>>

\* ProducerNextErr breaking out of the loop without pushing the error item
ProducerNextErr_silent ==
    /\ producer = "next"
    /\ upstreamState = "open"
    /\ upstreamState' = "errored"
    /\ producer' = "done"
    /\ UNCHANGED <<handlerVars, item, upstreamRead, queue, rx, clientState, delivered>>

\* stream.next() yielded Some(Err(e)): tx.send(Err(..)) is awaited.
ProducerNextErr ==
    /\ producer = "next"
    /\ upstreamState = "open"
    /\ upstreamState' = "errored"
    /\ item' = Some(<<"Err", "Error reading from upstream">>)
    /\ producer' = "send"
    /\ UNCHANGED <<handlerVars, upstreamRead, queue, rx, clientState, delivered>>

\* ProducerNextNone in a loop that does not end on None
ProducerNextNone_hang ==
    /\ producer = "next"
    /\ upstreamState = "open"
    /\ upstreamState' = "ended"
    /\ UNCHANGED <<handlerVars, producer, item, upstreamRead, queue, rx, clientState,
                   delivered>>

\* stream.next() yielded None: the loop ends, tx and the stream are dropped.
ProducerNextNone ==
    /\ producer = "next"
    /\ upstreamState = "open"
    /\ upstreamState' = "ended"
    /\ producer' = "done"
    /\ UNCHANGED <<handlerVars, item, upstreamRead, queue, rx, clientState, delivered>>

\* ProducerSendOk on a channel without a capacity
ProducerSendOk_unbounded ==
    /\ producer = "send"
    /\ rx = "open"
    /\ queue' = Append(queue, Unwrap(item))
    /\ item' = None
    /\ producer' = IF Unwrap(item)[1] = "Ok" THEN "next" ELSE "done"
    /\ UNCHANGED <<handlerVars, upstreamRead, upstreamState, rx, clientState, delivered>>

\* ProducerSendOk putting the item at the head of the channel
ProducerSendOk_front ==
    /\ producer = "send"
    /\ rx = "open"
    /\ Len(queue) < QueueCapacity
    /\ queue' = <<Unwrap(item)>> \o queue
    /\ item' = None
    /\ producer' = IF Unwrap(item)[1] = "Ok" THEN "next" ELSE "done"
    /\ UNCHANGED <<handlerVars, upstreamRead, upstreamState, rx, clientState, delivered>>

\* tx.send(item) completed: the channel had room and the receiver is alive.
\* After a chunk the loop reads on; after the error item it breaks.
ProducerSendOk ==
    /\ producer = "send"
    /\ rx = "open"
    /\ Len(queue) < QueueCapacity
    /\ queue' = Append(queue, Unwrap(item))
    /\ item' = None
    /\ producer' = IF Unwrap(item)[1] = "Ok" THEN "next" ELSE "done"
    /\ UNCHANGED <<handlerVars, upstreamRead, upstreamState, rx, clientState, delivered>>

\* tx.send(item) failed, the receiver is gone: break (chunk) or ignore and
\* break (error item).
ProducerSendErr ==
    /\ producer = "send"
    /\ rx = "dropped"
    /\ item' = None
    /\ producer' = "done"
    /\ UNCHANGED <<handlerVars, upstreamRead, upstreamState, queue, rx, clientState,
                   delivered>>

\* ------------------------------------------------ consumer (outbound body)
\* The body stream yields Ok(bytes): the chunk is written to the client.
ConsumerChunk ==
    /\ rx = "open"
    /\ clientState = "reading"
    /\ queue # <<>>
    /\ Head(queue)[1] = "Ok"
    /\ delivered' = Append(delivered, Head(queue)[2])
    /\ queue' = Tail(queue)
    /\ UNCHANGED <<handlerVars, producer, item, upstreamRead, upstreamState, rx,
                   clientState>>

\* ConsumerErr turning the committed response into a 500
ConsumerErr_status ==
    /\ rx = "open"
    /\ clientState = "reading"
    /\ queue # <<>>
    /\ Head(queue)[1] = "Err"
    /\ clientState' = "failed"
    /\ rx' = "dropped"
    /\ queue' = <<>>
    /\ response' = Some([Unwrap(response) EXCEPT !.status = INTERNAL_SERVER_ERROR])
    /\ UNCHANGED <<pc, args, server_config, token, req_builder, in_flight, is_streaming,
                   sendCalls, receiveCalls, results, upstreamCalls, upstreamResp,
                   spawned, producer, item, upstreamRead, upstreamState, delivered>>

\* The body stream yields Err(io::Error): the outbound body fails and is
\* dropped.
ConsumerErr ==
    /\ rx = "open"
    /\ clientState = "reading"
    /\ queue # <<>>
    /\ Head(queue)[1] = "Err"
    /\ clientState' = "failed"
    /\ rx' = "dropped"
    /\ queue' = <<>>
    /\ UNCHANGED <<handlerVars, producer, item, upstreamRead, upstreamState, delivered>>

\* The channel is empty and every sender is dropped: the body ends.
ConsumerEnd ==
    /\ rx = "open"
    /\ clientState = "reading"
    /\ queue = <<>>
    /\ producer = "done"
    /\ clientState' = "ended"
    /\ rx' = "dropped"
    /\ UNCHANGED <<handlerVars, producer, item, upstreamRead, upstreamState, queue,
                   delivered>>

\* The client goes away: the outbound body, and with it the receiver, is
\* dropped.
ClientDisconnect ==
    /\ rx = "open"
    /\ clientState = "reading"
    /\ clientState' = "disconnected"
    /\ rx' = "dropped"
    /\ queue' = <<>>
    /\ UNCHANGED <<handlerVars, producer, item, upstreamRead, upstreamState, delivered>>

\* ------------------------------------------------------------ specification
Next ==
    \/ forward_chat_completions
    \/ forward_list_models
    \/ forward_embeddings
    \/ forward_image_generations
    \/ get_specific_model
    \/ ConfigMissing
    \/ ConfigFound
    \/ WalletSendErr
    \/ WalletSendOk
    \/ UpstreamSendErr
    \/ UpstreamRespond
    \/ WalletReceiveOk
    \/ WalletReceiveErr
    \/ ProducerNextChunk(MaxChunks, ChunkBytes)
    \/ ProducerNextErr
    \/ ProducerNextNone
    \/ ProducerSendOk
    \/ ProducerSendErr
    \/ ConsumerChunk
    \/ ConsumerErr
    \/ ConsumerEnd
    \/ ClientDisconnect

Spec == Init /\ [][Next]_vars

\* Spec with the progress the runtime and the collaborators give: the
\* configuration lookup, wallet.send and the outbound send complete, and
\* both relay tasks are scheduled.  Nothing is assumed of wallet.receive, of
\* the upstream body or of the client.
FairSpec ==
    /\ Spec
    /\ WF_vars(ConfigMissing \/ ConfigFound)
    /\ WF_vars(WalletSendErr \/ WalletSendOk)
    /\ WF_vars(UpstreamSendErr \/ UpstreamRespond)
    /\ WF_vars(ProducerSendOk)
    /\ WF_vars(ProducerSendErr)
    /\ WF_vars(ConsumerChunk)
    /\ WF_vars(ConsumerErr)
    /\ WF_vars(ConsumerEnd)

\* ------------------------------------------------- the relay on its own
\* The relay of one forwarded response, from the state in which the handler
\* has just returned it (status 200, no upstream headers, no refund), with
\* an upstream that emits more chunks than the channel holds.
RelayMaxChunks == 102
RelayChunkBytes == {1}

RelayInit ==
    /\ pc = "returned"
    /\ args = None
    /\ server_config = None
    /\ token = None
    /\ req_builder = None
    /\ in_flight = None
    /\ is_streaming \in BOOLEAN
    /\ sendCalls = <<SendAmount>>
    /\ receiveCalls = <<>>
    /\ results = [config |-> "Some", send |-> "Ok", upstream |-> "Ok",
                  receive |-> "pending"]
    /\ upstreamCalls = 1
    /\ upstreamResp = Some([status |-> 200, headers |-> <<>>])
    /\ response = Some([status |-> 200,
                        headers |-> response_builder(200, <<>>, is_streaming).headers,
                        body |-> <<"stream">>])
    /\ spawned = 1
    /\ producer = "next"
    /\ item = None
    /\ upstreamRead = <<>>
    /\ upstreamState = "open"
    /\ queue = <<>>
    /\ rx = "open"
    /\ clientState = "reading"
    /\ delivered = <<>>

\* stream.next() completes: the upstream delivered a chunk, an error or the
\* end of the body.
UpstreamEvent ==
    \/ ProducerNextChunk(RelayMaxChunks, RelayChunkBytes)
    \/ ProducerNextErr
    \/ ProducerNextNone

RelayNext ==
    \/ ProducerNextChunk(RelayMaxChunks, RelayChunkBytes)
    \/ ProducerNextErr
    \/ ProducerNextNone
    \/ ProducerSendOk
    \/ ProducerSendErr
    \/ ConsumerChunk
    \/ ConsumerErr
    \/ ConsumerEnd
    \/ ClientDisconnect

RelaySpec == RelayInit /\ [][RelayNext]_vars

\* The runtime schedules both tasks fairly: a tx.send that can complete does,
\* and the body stream is polled while the client reads.  The upstream is
\* only known to produce an event when the client has a timeout, which is
\* set for streaming requests alone (line 157): then stream.next() yields
\* a chunk, the end or a timeout error.
RelayFairSpec ==
    /\ RelaySpec
    /\ WF_vars(ProducerSendOk)
    /\ WF_vars(ProducerSendErr)
    /\ WF_vars(ConsumerChunk)
    /\ WF_vars(ConsumerErr)
    /\ WF_vars(ConsumerEnd)
    /\ WF_vars(is_streaming /\ UpstreamEvent)

\* RelayFairSpec with an upstream that always goes on to emit its next
\* chunk, an error or the end of the body.
RelayLiveSpec ==
    /\ RelayFairSpec
    /\ WF_vars(UpstreamEvent)

\* ------------------------------------------------------------------ claims
\* C1: when the configuration lookup reports no configuration the request
\* ends with status 400 and error code "server_config_missing", and it has
\* made no wallet send, no wallet receive and no outbound HTTP send.
C1_ConfigMissing ==
    results.config = "None" =>
        /\ pc = "returned"
        /\ IsSome(response)
        /\ Unwrap(response).status = 400
        /\ Unwrap(response).body[1] = "json"
        /\ Unwrap(response).body[2].error.code = "server_config_missing"
        /\ sendCalls = <<>>
        /\ receiveCalls = <<>>
        /\ upstreamCalls = 0
        /\ in_flight = None
        /\ spawned = 0

C1_Witness ==
    /\ results.config = "None"
    /\ is_streaming
    /\ IsSome(response)

\* C2: the request makes exactly one wallet send call if the configuration
\* was resolved and none otherwise, whatever happens afterwards.
C2_ExactlyOneSend ==
    /\ results.config = "Some" => Len(sendCalls) = 1
    /\ results.config # "Some" => Len(sendCalls) = 0

C2_Witness ==
    /\ results.send = "Err"
    /\ pc = "returned"
    /\ Len(sendCalls) = 1

\* C3: when the wallet send fails the response is 500 with type
\* "payment_error"; the upstream is never contacted, no producer task is
\* spawned and no wallet receive call is made.
C3_PaymentError ==
    results.send = "Err" =>
        /\ pc = "returned"
        /\ IsSome(response)
        /\ Unwrap(response).status = 500
        /\ Unwrap(response).body[1] = "json"
        /\ Unwrap(response).body[2].error.type = "payment_error"
        /\ upstreamCalls = 0
        /\ in_flight = None
        /\ results.upstream = "pending"
        /\ spawned = 0
        /\ producer = "none"
        /\ receiveCalls = <<>>

C3_Witness ==
    /\ results.send = "Err"
    /\ IsSome(response)
    /\ Unwrap(response).status = 500

IsPrefix(p, q) == Len(p) <= Len(q) /\ SubSeq(q, 1, Len(p)) = p

\* C4: the chunks delivered to the client are always a prefix of the chunks
\* read from upstream, and when the upstream stream closed cleanly and the
\* client read the body to its end the two sequences are equal.
C4_OrderPreserving ==
    /\ IsPrefix(delivered, upstreamRead)
    /\ (upstreamState = "ended" /\ clientState = "ended") => delivered = upstreamRead

C4_Witness ==
    /\ upstreamState = "ended"
    /\ clientState = "ended"
    /\ Len(delivered) >= 2
    /\ delivered[1] # delivered[2]

\* C5: after an upstream read error the producer holds or has pushed the
\* error item and never reads again; an error item is the last item of the
\* channel; while the client is reading, the finished producer has left the
\* error item in the channel; and a client whose body failed has received
\* exactly the chunks read before the error.
C5_ErrorTerminates ==
    /\ \A i \in 1..Len(queue) : queue[i][1] = "Err" => i = Len(queue)
    /\ upstreamState = "errored" =>
          /\ producer \in {"send", "done"}
          /\ producer = "send" => Unwrap(item)[1] = "Err"
          /\ (producer = "done" /\ rx = "open") =>
                (queue # <<>> /\ queue[Len(queue)][1] = "Err")
    /\ clientState = "failed" =>
          /\ upstreamState = "errored"
          /\ delivered = upstreamRead
          /\ rx = "dropped"

C5_Witness ==
    /\ clientState = "failed"
    /\ producer = "done"
    /\ Len(delivered) = 2

HasEntry(h, e) == \E i \in 1..Len(h) : h[i] = e

\* C6: the outbound response headers of a forwarded response never contain
\* "connection" or "transfer-encoding" and contain every other upstream
\* header entry (name and value), also when a name has several values.
C6_HeaderFilter ==
    (results.upstream = "Ok" /\ IsSome(response)) =>
        LET up == Unwrap(upstreamResp).headers
            out == Unwrap(response).headers
        IN  /\ ~contains_key(out, "connection")
            /\ ~contains_key(out, "transfer-encoding")
            /\ \A i \in 1..Len(up) :
                  up[i][1] \notin {"connection", "transfer-encoding"} => HasEntry(out, up[i])

\* C7: once the handler of a request whose upstream send succeeded has
\* passed the change absorber, it has made exactly one wallet receive call,
\* with the header's amount, if the upstream response carries X-CHANGE-SATS
\* and none if it does not; a request that ended in a config, payment or
\* gateway error has made none.
C7_ReceiveIffRefundHeader ==
    /\ (results.upstream = "Ok" /\ pc # "upstream_send") =>
          LET change_sats == get(Unwrap(upstreamResp).headers, "x-change-sats")
          IN  IF IsSome(change_sats)
              THEN receiveCalls = <<Unwrap(change_sats)>>
              ELSE receiveCalls = <<>>
    /\ results.upstream # "Ok" => receiveCalls = <<>>

\* C8: change absorption never fails the request: for every X-CHANGE-SATS
\* value and every outcome of wallet.receive, once the change absorber is
\* done the handler has returned the response it returns when the receive
\* call succeeds (upstream status, filtered headers, streamed body).
C8_AbsorptionNeverFails ==
    (results.upstream = "Ok" /\ pc \notin {"upstream_send", "wallet_receive"}) =>
        LET up == Unwrap(upstreamResp)
            rb == response_builder(up.status, up.headers, is_streaming)
        IN  /\ pc = "returned"
            /\ IsSome(response)
            /\ Unwrap(response).status = up.status
            /\ Unwrap(response).headers = copy_headers(rb.headers, up.headers)
            /\ Unwrap(response).body = <<"stream">>
            /\ spawned = 1

\* C9: every error response body is {error: {message, type, param, code?}}
\* with message, type and param present, type one of "server_error",
\* "payment_error", "gateway_error" and param null.
C9_ErrorBodyShape ==
    (IsSome(response) /\ Unwrap(response).body[1] = "json") =>
        LET value == Unwrap(response).body[2]
        IN  /\ DOMAIN value = {"error"}
            /\ {"message", "type", "param"} \subseteq DOMAIN value.error
            /\ DOMAIN value.error \subseteq {"message", "type", "param", "code"}
            /\ value.error.type \in {"server_error", "payment_error", "gateway_error"}
            /\ value.error.param = JsonNull

\* C10: the request sent upstream is POST iff the handler was given a body
\* and GET otherwise; list-models and get-model go out as GET without a
\* body, chat-completion, embeddings and image-generation as POST with the
\* inbound payload as body.
C10_MethodByBody ==
    IsSome(in_flight) =>
        LET r == Unwrap(in_flight)
            a == Unwrap(args)
        IN  /\ r.method \in {"GET", "POST"}
            /\ r.method = "POST" <=> IsSome(a.body)
            /\ r.body = a.body
            /\ a.op \in {"list_models", "get_model"} =>
                  (r.method = "GET" /\ r.body = None)
            /\ a.op \in {"chat_completions", "embeddings", "image_generations"} =>
                  (r.method = "POST" /\ IsSome(r.body)
                     /\ Unwrap(r.body).type = CASE a.op = "chat_completions" -> "ChatCompletionRequest"
                                                [] a.op = "embeddings" -> "EmbeddingRequest"
                                                [] OTHER -> "ImageGenerationRequest")

C10_Witness ==
    /\ IsSome(in_flight)
    /\ pc = "upstream_send"
    /\ Unwrap(args).op = "get_model"
    /\ Unwrap(in_flight).method = "GET"

\* C11: the credential of the outbound request is "Bearer " + the resolved
\* api_key and nothing of the caller's: the request in flight has exactly
\* one authorization entry, derived from the configuration, and it is the
\* request any other inbound header map with the same Accept header would
\* have produced with the same body, configuration and token.
C11_CredentialFromConfig ==
    IsSome(in_flight) =>
        LET r == Unwrap(in_flight)
            a == Unwrap(args)
            config == Unwrap(server_config)
        IN  /\ SelectEntries(r.headers, "authorization")
                  = << <<"authorization", Bearer \o config.api_key>> >>
            /\ \A i \in 1..Len(r.headers) : r.headers[i][2] # CallerCredential
            /\ \A other \in InboundHeaderMaps :
                  get(other, "accept") = get(a.original_headers, "accept") =>
                     r = set_headers(new_req_builder(config, a.endpoint_fn, a.body,
                                                     is_streaming),
                                     config, Unwrap(token), other)

C11_Witness ==
    /\ IsSome(in_flight)
    /\ contains_key(Unwrap(args).original_headers, "authorization")
    /\ contains_key(Unwrap(args).original_headers, "accept")
    /\ contains_key(Unwrap(in_flight).headers, "accept")

\* C12: no step is retried.  The wallet send and the upstream send are made
\* at most once; the lookup is started once (the handler never goes back to
\* its entry) and a returned handler stays returned; a failed lookup, wallet
\* send or upstream send has ended the request with an error response and
\* none of the later steps has run.
C12_NoRetries ==
    /\ [](/\ Len(sendCalls) <= 1
          /\ upstreamCalls <= 1
          /\ Len(receiveCalls) <= 1
          /\ results.config = "None" =>
                /\ pc = "returned" /\ IsSome(response)
                /\ Unwrap(response).status = 400
                /\ sendCalls = <<>> /\ upstreamCalls = 0
                /\ spawned = 0 /\ receiveCalls = <<>>
          /\ results.send = "Err" =>
                /\ pc = "returned" /\ IsSome(response)
                /\ Unwrap(response).status = 500
                /\ upstreamCalls = 0
                /\ spawned = 0 /\ receiveCalls = <<>>
          /\ results.upstream = "Err" =>
                /\ pc = "returned" /\ IsSome(response)
                /\ Unwrap(response).status = 500
                /\ Len(sendCalls) = 1 /\ upstreamCalls = 1
                /\ spawned = 0 /\ receiveCalls = <<>>)
    /\ [][/\ pc' # "idle"
          /\ pc' = "get_server_config" => pc = "idle"
          /\ pc = "returned" => pc' = "returned"
          /\ sendCalls' # sendCalls => pc = "get_server_config"
          /\ upstreamCalls' # upstreamCalls => pc = "wallet_send"]_vars

C12_Witness ==
    /\ results.upstream = "Err"
    /\ pc = "returned"
    /\ upstreamCalls = 1

\* C13: once the receiving half of the channel is gone the producer pushes
\* nothing more into the channel, and it eventually stops (dropping the
\* upstream stream), whether it was blocked in tx.send or waiting in
\* stream.next().
C13_Cancellation ==
    /\ [][rx = "dropped" => queue' = queue]_vars
    /\ (rx = "dropped") ~> (producer = "done")

\* C14: the response does not wait for change absorption: whenever
\* wallet.receive has been called, the response is eventually returned to
\* the caller, also when the receive call never completes.
C14_ResponseNotDelayed ==
    (pc = "wallet_receive") ~> IsSome(response)

IsOk(x) == x[1] = "Ok"

\* C15: the channel never holds more than 100 items; the producer holds at
\* most one item, exactly while it waits in tx.send, and reads from upstream
\* only when it holds none; while the client reads, every chunk read is
\* delivered, in the channel or held; so at most 101 chunks are read and not
\* yet delivered.
C15_BoundedQueue ==
    /\ [](/\ Len(queue) <= 100
          /\ Len(upstreamRead) - Len(delivered) <= 101
          /\ producer = "send" <=> IsSome(item)
          /\ rx = "open" =>
                Len(upstreamRead) = Len(delivered) + Len(SelectSeq(queue, IsOk))
                                    + (IF IsSome(item) /\ IsOk(Unwrap(item)) THEN 1 ELSE 0))
    /\ [][upstreamRead' # upstreamRead => (producer = "next" /\ item = None)]_vars
    /\ [][(Len(queue) = 100 /\ producer = "send") =>
             (upstreamRead' = upstreamRead /\ Len(queue') <= 100)]_vars

C15_Witness ==
    /\ Len(queue) = 100
    /\ producer = "send"
    /\ IsSome(item)
    /\ Len(upstreamRead) - Len(delivered) = 101

\* C16: while the upstream emits its chunks and closes without error and
\* the client keeps reading, the relay completes: the producer terminates,
\* every chunk read is delivered and the outbound body ends, also with more
\* chunks than the channel holds.
C16_RelayLiveness ==
    (clientState = "reading") ~>
        \/ upstreamState = "errored"
        \/ clientState = "disconnected"
        \/ /\ producer = "done"
           /\ upstreamState = "ended"
           /\ clientState = "ended"
           /\ delivered = upstreamRead

C16_Witness ==
    /\ producer = "done"
    /\ upstreamState = "ended"
    /\ clientState = "ended"
    /\ delivered = upstreamRead
    /\ Len(delivered) > 100

\* C17: the response of a request whose upstream send succeeded has the
\* upstream's status code, whatever it is, and exists before the client is
\* given any chunk; once returned, status and headers never change, also
\* when the upstream read fails or the client disconnects.
C17_CommittedStatus ==
    /\ [](/\ (results.upstream = "Ok" /\ IsSome(response)) =>
                /\ Unwrap(response).status = Unwrap(upstreamResp).status
                /\ Unwrap(response).body = <<"stream">>
          /\ (clientState # "none" \/ delivered # <<>>) =>
                (IsSome(response) /\ results.upstream = "Ok"))
    /\ [][IsSome(response) => response' = response]_vars

C17_Witness ==
    /\ clientState = "failed"
    /\ Len(delivered) >= 1
    /\ IsSome(response)
    /\ Unwrap(response).status = 402

\* C18: a forwarded response carries the injected "text/event-stream"
\* content type iff streaming was requested and the upstream response has no
\* content type; a content type the upstream supplied reaches the client
\* with its own value; a non-streaming response without upstream content
\* type has none.
C18_ContentTypeDefault ==
    (results.upstream = "Ok" /\ IsSome(response)) =>
        LET up == Unwrap(upstreamResp).headers
            out == Unwrap(response).headers
        IN  /\ HasEntry(out, <<"content-type", TEXT_EVENT_STREAM>>)
                  <=> (is_streaming /\ ~contains_key(up, "content-type"))
            /\ contains_key(up, "content-type") =>
                  /\ contains_key(out, "content-type")
                  /\ \A i \in 1..Len(out) :
                        out[i][1] = "content-type" => HasEntry(up, out[i])
            /\ (~is_streaming /\ ~contains_key(up, "content-type")) =>
                  ~contains_key(out, "content-type")

C18_Witness ==
    /\ results.upstream = "Ok"
    /\ IsSome(response)
    /\ is_streaming
    /\ Unwrap(upstreamResp).headers # <<>>
    /\ HasEntry(Unwrap(response).headers, <<"content-type", TEXT_EVENT_STREAM>>)

C20_SpentTokenOnGatewayError ==
    /\ results.upstream = "Err" =>
          /\ pc = "returned"
          /\ IsSome(response)
          /\ Unwrap(response).status = 500
          /\ Unwrap(response).body[1] = "json"
          /\ Unwrap(response).body[2].error.type = "gateway_error"
          /\ sendCalls = <<10>>
          /\ upstreamCalls = 1
          /\ receiveCalls = <<>>
          /\ results.receive = "pending"
          /\ spawned = 0
          /\ producer = "none"
    /\ spawned <= 1
    /\ spawned = 1 => results.upstream = "Ok"
    /\ producer # "none" <=> spawned = 1

C20_Witness ==
    /\ results.upstream = "Err"
    /\ results.send = "Ok"
    /\ pc = "returned"
    /\ sendCalls = <<10>>

====
